---- MODULE Spec2Model ----
(***************************************************************************)
(* AnyVM execution core: the Machine of src/src/lib.rs and the interpreter *)
(* loop of src/src/invoke.rs.                                              *)
(*                                                                         *)
(* Values.  A typed value (u8/u16/u32/u64/i64) is the sequence of its      *)
(* bytes, most significant first.  Memory is an array of bytes.  The host  *)
(* byte order is a build parameter (hostLE); loads and stores through a    *)
(* transmuted slice use the host order, from_be / to_be swap on a          *)
(* little-endian host (numerical.rs).                                      *)
(*                                                                         *)
(* Pointers (stack_pointer, exec_pointer, sbm, registers) are integers.    *)
(* Words whose magnitude is 2^24 or more are identified with +-Huge: every *)
(* such word is far outside memory, and no arithmetic of the model brings  *)
(* it back.                                                                *)
(***************************************************************************)
EXTENDS Integers, Sequences, FiniteSets, TLC

VARIABLES
    hostLE,         \* TRUE on a little-endian host (cfg(target_endian))
    memory,         \* Machine.memory : Vec<u8>, index 0 .. Capacity-1
    text_start,     \* Machine.text_start
    stack_start,    \* Machine.stack_start
    stack_pointer,  \* Machine.stack_pointer
    exec_pointer,   \* Machine.exec_pointer
    errcode,        \* Machine.errcode
    sbm,            \* Machine.sbm : (stack, exec)
    registers,      \* self.registers[0], self.registers[1] (invoke.rs)
    rabbit_top,     \* self.rabbit_top (next_rabbit)
    rabbit_objs,    \* self.rabbit_objs : handle -> table name
    rabbit_fns,     \* self.rabbit_fns  : handle -> function name
    state,          \* "new" | "mounted" | "running" | "returned" | "panicked"
    result,         \* what the last invoke returned
    mounted,        \* index of the mounted image in Images (0: none)
    invokes,        \* number of invoke calls made so far
    entry,          \* the offset `at` of the latest invoke call
    ops,            \* steps made since the first direct method call (0: none yet)
    last,           \* the last operation: its name, inputs, pre-state and outcome
    frame           \* the setsbm .. throw .. checkerr .. geterr bracket in progress

vars == << hostLE, memory, text_start, stack_start, stack_pointer, exec_pointer,
           errcode, sbm, registers, rabbit_top, rabbit_objs, rabbit_fns,
           state, result, mounted, invokes, entry, ops, last, frame >>

----------------------------------------------------------------------------
(* Bounds *)

Capacity   == 96        \* Machine::new(capacity)
MaxExec    == 110       \* no instruction is dispatched once exec_pointer exceeds this
MaxInvokes == 2         \* invoke calls made on one machine
MaxStackOps == 2        \* steps from the first direct call on, in SpecStack
MaxSbmOps  == 4         \* steps from the first direct call on, in SpecSbm
MaxArithOps == 2        \* steps from the first direct call on, in SpecArith
MaxMounts  == 1         \* mounts made on a machine already mounted, in SpecMount
MaxAluOps  == 2         \* steps from the first direct call on, in SpecAlu
MaxSwapOps == 2         \* direct calls of swap_as, in SpecSwap
MaxNumOps  == 2         \* calls of the Numerical conversions, in SpecNum
MaxCapacity == 9        \* machines of capacity 0 .. MaxCapacity, in SpecCap
MaxCapOps  == 1         \* typed accesses on those machines, in SpecCap
MaxHostOps == 3         \* steps from the first host function call on, in SpecHost

Huge     == 256 * 256 * 256   \* magnitude at which words saturate

end      == Capacity - 8                                   \* lib.rs:223

Byte     == 0 .. 255
Widths   == {1, 2, 4, 8}                                   \* BYTE_COUNT of b, s, i, l

----------------------------------------------------------------------------
(* Values and byte order (numerical.rs) *)

Reverse(s) == [i \in 1 .. Len(s) |-> s[Len(s) + 1 - i]]

\* Numerical::from_be: "flip the endianness if we're on an LE platform"
from_be(v) == IF hostLE THEN Reverse(v) ELSE v

\* Numerical::to_be: "exactly the same thing as from_be"
to_be(v) == from_be(v)

\* the integer a transmuted &[T] yields for the bytes bs, and the bytes it stores
native_load(bs) == IF hostLE THEN Reverse(bs) ELSE bs
native_store(v) == IF hostLE THEN Reverse(v) ELSE v

Zeros(n) == [i \in 1 .. n |-> 0]

AllEq(v, lo, hi, b) == \A i \in lo .. hi : v[i] = b

Low3(v) == LET n == Len(v) IN
    (IF n >= 3 THEN v[n - 2] * 65536 ELSE 0) + (IF n >= 2 THEN v[n - 1] * 256 ELSE 0) + v[n]

\* a value read as an unsigned integer
AsU(v) == IF Len(v) <= 3 \/ AllEq(v, 1, Len(v) - 3, 0) THEN Low3(v) ELSE Huge

\* an 8-byte value read as i64
AsI64(v) ==
    IF AllEq(v, 1, 5, 0) THEN Low3(v)
    ELSE IF AllEq(v, 1, 5, 255) THEN Low3(v) - Huge
    ELSE IF v[1] >= 128 THEN 0 - Huge ELSE Huge

\* the 8 bytes of an integer (i64 / u64 as the same bit pattern)
Word(n) ==
    IF n >= Huge THEN << 127, 255, 255, 255, 255, 255, 255, 255 >>
    ELSE IF n < 0 - Huge THEN << 128, 0, 0, 0, 0, 0, 0, 0 >>
    ELSE IF n >= 0
         THEN << 0, 0, 0, 0, 0, (n \div 65536) % 256, (n \div 256) % 256, n % 256 >>
         ELSE LET k == n + Huge IN
              << 255, 255, 255, 255, 255, (k \div 65536) % 256, (k \div 256) % 256, k % 256 >>

----------------------------------------------------------------------------
(* The machine as a value: every method below takes the machine it is      *)
(* called on and returns the machine it leaves, with its result.           *)

Self == [ memory |-> memory, text_start |-> text_start, stack_start |-> stack_start,
          stack_pointer |-> stack_pointer, exec_pointer |-> exec_pointer,
          errcode |-> errcode, sbm |-> sbm, registers |-> registers,
          rabbit_top |-> rabbit_top, rabbit_objs |-> rabbit_objs,
          rabbit_fns |-> rabbit_fns, end |-> end ]

\* the one element of a singleton; { F(x) : x \in {e} } binds x to the value of e
Only(S) == CHOOSE x \in S : TRUE

\* MemResult / Result values: ok, the value v, and the machine m left behind
Ok(m, v)   == [ok |-> TRUE, v |-> v, m |-> m, e |-> "none"]
Fail(m, e) == [ok |-> FALSE, v |-> << >>, m |-> m, e |-> e]

Segfault == "SegmentationFault"                             \* error.rs:14

\* stackaddr with the upper limit taken inclusive
stackaddr_inclusive(m, addr) ==
    LET a == IF addr < 0 THEN addr + m.stack_pointer ELSE addr
    IN  IF a < 0 \/ a > m.end THEN Fail(m, Segfault) ELSE Ok(m, a)

\* stackaddr with the limit at the end of the buffer, not 8 bytes before it
stackaddr_unpadded(m, addr) ==
    LET a == IF addr < 0 THEN addr + m.stack_pointer ELSE addr
    IN  IF a < 0 \/ a >= m.end + 8 THEN Fail(m, Segfault) ELSE Ok(m, a)

\* Machine::stackaddr (lib.rs:262)
stackaddr(m, addr) ==
    LET a == IF addr < 0 THEN addr + m.stack_pointer ELSE addr
    IN  IF a < 0 \/ a >= m.end THEN Fail(m, Segfault) ELSE Ok(m, a)

\* Machine::memory_as_at (lib.rs:248): the slice memory[pos..], or a fault.
\* memory.len() is the capacity, end + 8 (lib.rs:222-223)
memory_as_at(m, pos) ==
    IF pos < m.end + 8 THEN Ok(m, pos) ELSE Fail(m, Segfault)

\* the indices of memory that get_at_as::<T> and setmem::<T> access, T of n
\* bytes: element 0 of the slice memory[pos..] taken as [T] (lib.rs:279-281,
\* 286-288), first and last index
accessed(m, n, pos) ==
    Only({ IF ~a.ok THEN Fail(m, a.e)
           ELSE IF ~memory_as_at(m, a.v).ok THEN Fail(m, Segfault)
           ELSE Ok(m, << a.v, a.v + n - 1 >>)
         : a \in {stackaddr(m, pos)} })

\* Machine::get_at_as::<T> (lib.rs:278), T of n bytes
get_at_as(m, n, pos) ==
    Only({ IF ~a.ok THEN Fail(m, a.e)
           ELSE IF ~memory_as_at(m, a.v).ok THEN Fail(m, Segfault)
           ELSE Ok(m, from_be(native_load([i \in 1 .. n |-> m.memory[a.v + i - 1]])))
         : a \in {stackaddr(m, pos)} })

\* Machine::setmem::<T> (lib.rs:285)
setmem(m, pos, val) ==
    Only({ IF ~a.ok THEN Fail(m, a.e)
           ELSE IF ~memory_as_at(m, a.v).ok THEN Fail(m, Segfault)
           ELSE Ok([m EXCEPT !.memory =
                      [i \in DOMAIN m.memory |->
                          IF i >= a.v /\ i < a.v + Len(val)
                          THEN native_store(to_be(val))[i - a.v + 1]
                          ELSE m.memory[i]]], val)
         : a \in {stackaddr(m, pos)} })

\* Machine::pop_arg::<T> (lib.rs:293).  The read is at stack_pointer; the
\* execution pointer advances whether or not the read succeeded; the value read
\* goes through from_be a second time.
pop_arg(m, n) ==
    Only({ IF ret.ok THEN Ok([m EXCEPT !.exec_pointer = @ + n], from_be(ret.v))
           ELSE Fail([m EXCEPT !.exec_pointer = @ + n], ret.e)
         : ret \in {get_at_as(m, n, m.stack_pointer)} })

\* Machine::pop_arg_addr (lib.rs:299)
pop_arg_addr(m) ==
    Only({ IF ~arg.ok THEN arg ELSE stackaddr(arg.m, AsI64(arg.v))
         : arg \in {pop_arg(m, 8)} })

\* Machine::pop_as::<T> (lib.rs:304): the pointer moves even when the read faults
pop_as(m, n) ==
    Only({ IF r.ok THEN Ok([m EXCEPT !.stack_pointer = @ - n], r.v)
           ELSE Fail([m EXCEPT !.stack_pointer = @ - n], r.e)
         : r \in {get_at_as(m, n, 0 - n)} })

\* Machine::push::<T>(thing) (lib.rs:310): setmem(0, thing), its result dropped
push(m, thing) ==
    Only({ Ok([w.m EXCEPT !.stack_pointer = @ + Len(thing)], << >>)
         : w \in {setmem(m, 0, thing)} })

\* Machine::pop_addr (lib.rs:316)
pop_addr(m) ==
    Only({ IF ~vm_addr.ok THEN vm_addr ELSE stackaddr(vm_addr.m, AsI64(vm_addr.v))
         : vm_addr \in {pop_as(m, 8)} })

\* a swap_as that stores at `one` only
swap_as_one_way(m, n, one, two) ==
    Only({ IF ~one_val.ok THEN one_val
           ELSE IF ~two_val.ok THEN two_val
           ELSE Only({ IF ~w1.ok THEN w1 ELSE Ok(w1.m, << >>)
                     : w1 \in {setmem(m, one, two_val.v)} })
         : one_val \in {get_at_as(m, n, one)}, two_val \in {get_at_as(m, n, two)} })

\* a swap_as that finds out that `two` is no address only when it stores there
swap_as_late(m, n, one, two) ==
    Only({ IF ~one_val.ok THEN one_val
           ELSE Only({ IF ~w1.ok THEN w1 ELSE setmem(w1.m, two, one_val.v)
                     : w1 \in {setmem(m, one, IF two_val.ok THEN two_val.v
                                                ELSE Zeros(n))} })
         : one_val \in {get_at_as(m, n, one)}, two_val \in {get_at_as(m, n, two)} })

\* Machine::swap_as::<T> (lib.rs:321)
swap_as(m, n, one, two) ==
    Only({ IF ~one_val.ok THEN one_val
           ELSE IF ~two_val.ok THEN two_val
           ELSE Only({ IF ~w1.ok THEN w1
                       ELSE Only({ IF ~w2.ok THEN w2 ELSE Ok(w2.m, << >>)
                                 : w2 \in {setmem(w1.m, two, one_val.v)} })
                     : w1 \in {setmem(m, one, two_val.v)} })
         : one_val \in {get_at_as(m, n, one)}, two_val \in {get_at_as(m, n, two)} })

\* Machine::pushv::<T> (lib.rs:336); invoke.rs:15 calls it pusher
pushv(m, n) ==
    Only({ IF ~val.ok THEN val ELSE push(val.m, val.v) : val \in {pop_arg(m, n)} })

\* Machine::swap::<T> (lib.rs:342); invoke.rs:20 calls it swapper
swap(m, n) ==
    Only({ IF ~p1.ok THEN p1
           ELSE Only({ IF ~p2.ok THEN p2
                       ELSE swap_as(p2.m, n, AsI64(p1.v), AsI64(p2.v))
                     : p2 \in {pop_arg(p1.m, 8)} })
         : p1 \in {pop_arg(m, 8)} })

\* Machine::pop::<T> (lib.rs:349); invoke.rs:25 calls it popper
pop(m, n) ==
    Only({ IF ~r.ok THEN r ELSE Ok(r.m, << >>) : r \in {pop_as(m, n)} })

\* throw rewinding to the marker itself, below the saved pair
throw_below(m, code) ==
    LET m1 == [m EXCEPT !.errcode = code] IN
    IF m.sbm[1] # 0 \/ m.sbm[2] # 0
    THEN Ok([m1 EXCEPT !.stack_pointer = m.sbm[1],
                       !.exec_pointer  = m.sbm[2]], << >>)
    ELSE Fail(m1, "UncaughtThrow")

\* Machine::throw (lib.rs:440).  The error it returns is the bare
\* InvokeErr::UncaughtThrow: the code is stored in errcode, not in the error.
throw(m, code) ==
    LET m1 == [m EXCEPT !.errcode = code] IN
    IF m.sbm[1] # 0 \/ m.sbm[2] # 0
    THEN Ok([m1 EXCEPT !.stack_pointer = m.sbm[1] + 16,
                       !.exec_pointer  = m.sbm[2]], << >>)
    ELSE Fail(m1, "UncaughtThrow")

\* next_rabbit handing out the next handle without advancing the counter
next_rabbit_stuck(m) == Ok(m, m.rabbit_top + 1)

\* Machine::next_rabbit (lib.rs:257)
next_rabbit(m) == Ok([m EXCEPT !.rabbit_top = @ + 1], m.rabbit_top + 1)

----------------------------------------------------------------------------
(* Strings of the host interface (invoke.rs:171-193) *)

STDABI      == << 115, 116, 100, 97, 98, 105 >>                      \* "stdabi"
PRINT       == << 112, 114, 105, 110, 116 >>                         \* "print"
STEST       == << 115, 116, 101, 115, 116 >>                         \* "stest"
STDABI_TEST == << 83, 84, 68, 65, 66, 73, 32, 84, 69, 83, 84 >>      \* "STDABI TEST"

\* CStr::from_bytes_until_nul(&memory[loc..]) then to_str(): the bytes up to the
\* first NUL; StringProcessingError when there is no NUL or the bytes are not
\* text (the images below hold no multi-byte UTF-8 sequence, so text is ASCII)
cstr(m, loc) ==
    LET nuls == {i \in loc .. Capacity - 1 : m.memory[i] = 0} IN
    IF nuls = {} THEN Fail(m, "StringProcessingError")
    ELSE LET z == CHOOSE i \in nuls : \A j \in nuls : i <= j
             str == [i \in 1 .. z - loc |-> m.memory[loc + i - 1]]
         IN  IF \E i \in 1 .. Len(str) : str[i] >= 128
             THEN Fail(m, "StringProcessingError")
             ELSE Ok(m, str)

\* what invoke returns (error.rs:4-25)
NoResult          == [kind |-> "none", err |-> "", mem |-> "", payload |-> << >>]
InvokeOk          == [kind |-> "Ok", err |-> "", mem |-> "", payload |-> << >>]
StdabiTestSuccess == [kind |-> "StdabiTestSuccess", err |-> "", mem |-> "", payload |-> << >>]
Panic             == [kind |-> "Panic", err |-> "", mem |-> "", payload |-> << >>]
InvokeErr(e) ==
    IF e = Segfault
    THEN [kind |-> "Err", err |-> "MemErr", mem |-> e, payload |-> << >>]
    ELSE [kind |-> "Err", err |-> e, mem |-> "", payload |-> << >>]

\* the outcome of one instruction: go on, or leave invoke with a result
Continue(m)  == [m |-> m, to |-> "running", res |-> NoResult]
Return(m, r) == [m |-> m, to |-> "returned", res |-> r]
Abort(m)     == [m |-> m, to |-> "panicked", res |-> Panic]
\* a failed Result routed to the stack-break marker when one is set
Raise_caught(r) ==
    IF r.m.sbm # << 0, 0 >> THEN Continue(throw(r.m, 1).m)
    ELSE Return(r.m, InvokeErr(r.e))

\* `x?` on a failed Result
Raise(r)     == Return(r.m, InvokeErr(r.e))

\* what a host function returns: the machine it leaves and its
\* Result<InvokeResult, InvokeErr>
Host(m, r) == [m |-> m, res |-> r]

\* the stdabi function "stest" (invoke.rs:189-199)
stest(m) ==
    Only({ IF ~addr.ok THEN Host(addr.m, InvokeErr(addr.e))
           ELSE Only({ IF ~str.ok THEN Host(str.m, InvokeErr(str.e))
                       ELSE IF str.v = STDABI_TEST THEN Host(str.m, StdabiTestSuccess)
                       ELSE Host(str.m, InvokeErr("StdabiTestFailure"))
                     : str \in {cstr([addr.m EXCEPT !.registers[1] = @ + 8], addr.v)} })
         : addr \in {pop_addr(m)} })

\* the stdabi function "print" (invoke.rs:179-185)
print(m) ==
    Only({ IF ~addr.ok THEN Host(addr.m, InvokeErr(addr.e))
           ELSE Only({ IF ~str.ok THEN Host(str.m, InvokeErr(str.e))
                       ELSE Host(str.m, InvokeOk)
                     : str \in {cstr([addr.m EXCEPT !.registers[1] = @ + 8], addr.v)} })
         : addr \in {pop_addr(m)} })

\* AbiFunction::call (invoke.rs:162) of the function registered under fn
call(fn, m) == IF fn = STEST THEN stest(m) ELSE print(m)

\* the match that continues after a host function's Err
match_res_lenient(h) ==
    IF h.res.kind = "StdabiTestSuccess" THEN Return(h.m, h.res) ELSE Continue(h.m)

\* invoke.rs:163-167 `match res`: StdabiTestSuccess and Err leave invoke with
\* res, any other Ok goes on with the loop
match_res(h) ==
    IF h.res.kind \in {"StdabiTestSuccess", "Err"} THEN Return(h.m, h.res)
    ELSE Continue(h.m)

\* width of the generic instruction op, the first of its family being base
WidthOf(op, base) == CASE op - base = 0 -> 8 [] op - base = 1 -> 4
                       [] op - base = 2 -> 2 [] OTHER -> 1

\* `handler()?;` for a handler that returns Result<(), InvokeErr>
Try(r) == IF r.ok THEN Continue(r.m) ELSE Raise(r)

\* Machine::cpyv::<T> (lib.rs:369): the result of setmem is dropped, a store
\* that faults leaves the memory as it was and the method returns Ok(())
cpyv(m, n) ==
    Only({ IF ~loc.ok THEN Raise(loc)
           ELSE Only({ IF ~val.ok THEN Raise(val)
                       ELSE Continue(setmem(val.m, AsI64(loc.v), val.v).m)
                     : val \in {pop_arg(loc.m, n)} })
         : loc \in {pop_arg(m, 8)} })

\* the n low bytes of the integer k
Val(k, n) == [i \in 1 .. n |-> Word(k)[8 - n + i]]

\* val1 / val2 on unsigned values, val2 not zero.  Values of 2^24 and more
\* are told apart only by their bytes: equal bytes divide to 1, a smaller
\* dividend to 0; a Huge dividend over another divisor stays Huge.
quot(val1, val2) ==
    IF val1 = val2 THEN 1
    ELSE IF AsU(val1) < Huge /\ AsU(val2) < Huge THEN AsU(val1) \div AsU(val2)
    ELSE IF AsU(val1) < Huge THEN 0
    ELSE Huge

\* Machine::div::<T> (lib.rs:406): `val1 / val2` panics when val2 is zero
div(m, n) ==
    Only({ IF ~loc1.ok THEN Raise(loc1)
           ELSE Only({ IF ~loc2.ok THEN Raise(loc2)
                       ELSE Only({ IF ~val1.ok THEN Raise(val1)
                                   ELSE IF ~val2.ok THEN Raise(val2)
                                   ELSE IF AllEq(val2.v, 1, n, 0) THEN Abort(val2.m)
                                   ELSE Try(setmem(val2.m, AsI64(loc1.v),
                                                   Val(quot(val1.v, val2.v), n)))
                                 : val1 \in {get_at_as(loc2.m, n, AsI64(loc1.v))},
                                   val2 \in {get_at_as(loc2.m, n, AsI64(loc2.v))} })
                     : loc2 \in {pop_arg(loc1.m, 8)} })
         : loc1 \in {pop_arg(m, 8)} })

----------------------------------------------------------------------------
(* Unsigned arithmetic on values of n bytes, most significant byte first.   *)
(* `+`, `-`, `*`, `<<` and `>>` on Rust's unsigned integers wrap (or mask   *)
(* the shift amount) in a build without overflow checks and panic in a      *)
(* build with them (the default of `cargo build` and `cargo test`).         *)

RECURSIVE CarryInto(_, _, _)
\* the carry of x + y into byte i, from the bytes after it
CarryInto(x, y, i) ==
    IF i = Len(x) THEN 0
    ELSE (x[i + 1] + y[i + 1] + CarryInto(x, y, i + 1)) \div 256

\* x + y modulo 2^(8n), and whether the sum passed 2^(8n)
wrapping_add(x, y) == [i \in 1 .. Len(x) |-> (x[i] + y[i] + CarryInto(x, y, i)) % 256]
add_overflows(x, y) == CarryInto(x, y, 0) > 0

RECURSIVE BorrowInto(_, _, _)
\* the borrow of x - y taken from byte i by the bytes after it
BorrowInto(x, y, i) ==
    IF i = Len(x) THEN 0
    ELSE IF x[i + 1] - y[i + 1] - BorrowInto(x, y, i + 1) < 0 THEN 1 ELSE 0

\* x - y modulo 2^(8n), and whether y > x
wrapping_sub(x, y) ==
    [i \in 1 .. Len(x) |-> (x[i] - y[i] - BorrowInto(x, y, i) + 256) % 256]
sub_overflows(x, y) == BorrowInto(x, y, 0) > 0

\* byte k of x counted from the least significant (k = 0), 0 beyond the value
Digit(x, k) == IF k >= 0 /\ k < Len(x) THEN x[Len(x) - k] ELSE 0

RECURSIVE ColumnSum(_, _, _, _)
\* the sum of the products Digit(x, i) * Digit(y, k - i) for i in 0 .. upto
ColumnSum(x, y, k, upto) ==
    IF upto < 0 THEN 0
    ELSE Digit(x, upto) * Digit(y, k - upto) + ColumnSum(x, y, k, upto - 1)

RECURSIVE Column(_, _, _)
\* column k of the long multiplication of x by y, with the carry of column k - 1
Column(x, y, k) ==
    ColumnSum(x, y, k, k) + (IF k = 0 THEN 0 ELSE Column(x, y, k - 1) \div 256)

\* x * y modulo 2^(8n), and whether the product passed 2^(8n)
wrapping_mul(x, y) == [i \in 1 .. Len(x) |-> Column(x, y, Len(x) - i) % 256]
mul_overflows(x, y) ==
    \E k \in Len(x) .. 2 * Len(x) - 1 :
        IF k = Len(x) THEN Column(x, y, k - 1) \div 256 + ColumnSum(x, y, k, k) > 0
        ELSE ColumnSum(x, y, k, k) > 0

Pow2(r) == CASE r = 0 -> 1 [] r = 1 -> 2 [] r = 2 -> 4 [] r = 3 -> 8
             [] r = 4 -> 16 [] r = 5 -> 32 [] r = 6 -> 64 [] OTHER -> 128

\* byte i of x (1 the most significant), 0 outside x
ByteOf(x, i) == IF i >= 1 /\ i <= Len(x) THEN x[i] ELSE 0

\* x << k and x >> k (logical) for 0 <= k < 8n
shl(x, k) ==
    [i \in 1 .. Len(x) |->
        ((ByteOf(x, i + k \div 8) * Pow2(k % 8)) % 256)
        + (IF k % 8 = 0 THEN 0
           ELSE ByteOf(x, i + k \div 8 + 1) \div Pow2(8 - (k % 8)))]
shr(x, k) ==
    [i \in 1 .. Len(x) |->
        (ByteOf(x, i - k \div 8) \div Pow2(k % 8))
        + (IF k % 8 = 0 THEN 0
           ELSE (ByteOf(x, i - k \div 8 - 1) * Pow2(8 - (k % 8))) % 256)]

\* `val1 op val2` for op one of + - *: the result modulo 2^(8n), and whether
\* it overflows
Wrapped(op, x, y) ==
    CASE op = "+" -> wrapping_add(x, y)
      [] op = "-" -> wrapping_sub(x, y)
      [] op = "*" -> wrapping_mul(x, y)
Overflows(op, x, y) ==
    CASE op = "+" -> add_overflows(x, y)
      [] op = "-" -> sub_overflows(x, y)
      [] op = "*" -> mul_overflows(x, y)

\* the body add, sub and mul share (lib.rs:377-383): two address operands, the
\* two values, `val1 op val2` stored at the first address; on overflow, a
\* build with overflow checks panics instead
binop(m, n, op) ==
    Only({ IF ~loc1.ok THEN {Raise(loc1)}
           ELSE Only({ IF ~loc2.ok THEN {Raise(loc2)}
                       ELSE Only({ IF ~val1.ok THEN {Raise(val1)}
                                   ELSE IF ~val2.ok THEN {Raise(val2)}
                                   ELSE {Try(setmem(val2.m, AsI64(loc1.v),
                                                    Wrapped(op, val1.v, val2.v)))}
                                        \cup (IF Overflows(op, val1.v, val2.v)
                                              THEN {Abort(val2.m)} ELSE {})
                                 : val1 \in {get_at_as(loc2.m, n, AsI64(loc1.v))},
                                   val2 \in {get_at_as(loc2.m, n, AsI64(loc2.v))} })
                     : loc2 \in {pop_arg(loc1.m, 8)} })
         : loc1 \in {pop_arg(m, 8)} })

\* Machine::add::<T> (lib.rs:376)
add(m, n) == binop(m, n, "+")

\* Machine::sub::<T> (lib.rs:386)
sub(m, n) == binop(m, n, "-")

\* Machine::mul::<T> (lib.rs:396)
mul(m, n) == binop(m, n, "*")

\* a byte read as i8
AsI8(b) == IF b >= 128 THEN b - 256 ELSE b

\* `val << k` (left) or `val >> k` stored at loc: a shift of 8n bits or more
\* panics in a build with overflow checks and shifts by k modulo 8n without
\* them
shift_by(m, n, loc, val, k, left) ==
    {Try(setmem(m, loc, IF left THEN shl(val, k % (8 * n)) ELSE shr(val, k % (8 * n))))}
    \cup (IF k >= 8 * n THEN {Abort(m)} ELSE {})

\* Machine::shift::<T> (lib.rs:428).  The method has no final Ok(()): it is
\* taken to return it.  `-amount` overflows for amount = -128: a panic with
\* overflow checks, -128 without them, which the shift masks to 0.
shift(m, n) ==
    Only({ IF ~loc.ok THEN {Raise(loc)}
           ELSE Only({ IF ~val.ok THEN {Raise(val)}
                       ELSE Only({ IF ~amount.ok THEN {Raise(amount)}
                                   ELSE IF AsI8(amount.v[1]) = 0 - 128
                                        THEN { Abort(amount.m),
                                               Try(setmem(amount.m, AsI64(loc.v), val.v)) }
                                   ELSE IF AsI8(amount.v[1]) < 0
                                        THEN shift_by(amount.m, n, AsI64(loc.v), val.v,
                                                      0 - AsI8(amount.v[1]), TRUE)
                                   ELSE IF AsI8(amount.v[1]) > 0
                                        THEN shift_by(amount.m, n, AsI64(loc.v), val.v,
                                                      AsI8(amount.v[1]), FALSE)
                                   ELSE {Continue(amount.m)}
                                 : amount \in {pop_arg(val.m, 1)} })
                     : val \in {get_at_as(loc.m, n, AsI64(loc.v))} })
         : loc \in {pop_arg(m, 8)} })

\* Machine::cpy::<T> (lib.rs:361).  Neither the read nor the store is checked:
\* when the read faults there is no value, and whatever is stored in its place
\* (any bytes) is stored; a store that faults changes nothing; Ok(()) either way
cpy(m, n) ==
    Only({ IF ~loc_one.ok THEN {Raise(loc_one)}
           ELSE Only({ IF ~loc_two.ok THEN {Raise(loc_two)}
                       ELSE { Continue(setmem(loc_two.m, AsI64(loc_two.v), v).m)
                              : v \in Only({ IF val.ok THEN {val.v}
                                             ELSE {Zeros(n), [i \in 1 .. n |-> 255]}
                                           : val \in {get_at_as(loc_two.m, n,
                                                                AsI64(loc_one.v))} }) }
                     : loc_two \in {pop_arg(loc_one.m, 8)} })
         : loc_one \in {pop_arg(m, 8)} })

\* Machine::cmp::<T> (lib.rs:416).  getreg_as is defined nowhere under src/, so
\* either branch of `regv < 0` may be the one taken: registers[reg] becomes
\* 1u64.to_be() or 0u64.to_be().  For a reg other than the two registers invoke
\* sets, the index panics or writes that register.  Nothing is pushed.
cmp(m, n) ==
    Only({ IF ~reg.ok THEN {Raise(reg)}
           ELSE { Continue([reg.m EXCEPT !.registers = (reg.v[1] :> x) @@ @])
                  : x \in {AsU(to_be(Word(1))), AsU(to_be(Word(0)))} }
                \cup (IF reg.v[1] \in DOMAIN reg.m.registers THEN {} ELSE {Abort(reg.m)})
         : reg \in {pop_arg(m, 1)} })

\* invoke.rs:64 branch.  The register file is declared nowhere under src/:
\* registers[reg] exists for the two registers invoke sets; for any other reg the
\* index panics (file too small), or reads a register no instruction has
\* written, zero or not.  Every outcome a build can produce is kept.
arm_branch(m) ==
    Only({ IF ~reg.ok THEN {Raise(reg)}
           ELSE Only({ IF ~pos.ok THEN {Raise(pos)}
                       ELSE IF reg.v[1] \in DOMAIN pos.m.registers
                            THEN { IF pos.m.registers[reg.v[1]] = 0
                                   THEN Continue([pos.m EXCEPT !.registers[0] = AsU(pos.v)])
                                   ELSE Continue(pos.m) }
                            ELSE { Abort(pos.m),
                                   Continue([pos.m EXCEPT !.registers[0] = AsU(pos.v)]),
                                   Continue(pos.m) }
                     : pos \in {pop_arg(reg.m, 8)} })
         : reg \in {pop_arg(m, 1)} })

\* invoke.rs:65 call
arm_call(m) ==
    Only({ IF ~addr.ok THEN Raise(addr)
           ELSE Only({ Continue([p.m EXCEPT !.registers[0] = AsU(addr.v)])
                     : p \in {push(addr.m, Word(addr.m.registers[0] + 1))} })
         : addr \in {pop_arg(m, 8)} })

\* invoke.rs:66 ret
arm_ret(m) ==
    Only({ IF ~ret_addr.ok THEN Raise(ret_addr)
           ELSE Continue([ret_addr.m EXCEPT !.registers[0] = AsU(ret_addr.v)])
         : ret_addr \in {pop_as(m, 8)} })

\* invoke.rs:67 invokevirtual
arm_invokevirtual(m) ==
    Only({ IF ~to_invoke.ok THEN Raise(to_invoke)
           ELSE Only({ IF ~rabbit.ok THEN Raise(rabbit)
                       ELSE IF AsI64(rabbit.v) \notin DOMAIN rabbit.m.rabbit_fns
                            THEN Abort(rabbit.m)   \* rabbit_fns[&rabbit], key missing
                            ELSE match_res(call(rabbit.m.rabbit_fns[AsI64(rabbit.v)],
                                                rabbit.m))
                     : rabbit \in {get_at_as(to_invoke.m, 8, AsI64(to_invoke.v))} })
         : to_invoke \in {pop_arg(m, 8)} })

\* invoke.rs:68 dock
arm_dock(m) ==
    Only({ IF ~d_name_loc.ok THEN Raise(d_name_loc)
           ELSE Only({ IF ~d_name.ok THEN Raise(d_name)
                       ELSE IF d_name.v # STDABI THEN Continue(d_name.m)
                       ELSE Only({ Continue([push(rabbit.m, Word(rabbit.v)).m
                                               EXCEPT !.rabbit_objs =
                                                   (rabbit.v :> STDABI) @@ @])
                                 : rabbit \in {next_rabbit(d_name.m)} })
                     : d_name \in {cstr(d_name_loc.m, d_name_loc.v)} })
         : d_name_loc \in {pop_arg_addr(m)} })

\* invoke.rs:69 loadfun
arm_loadfun(m) ==
    Only({ IF ~root_rabbit.ok THEN Raise(root_rabbit)
           ELSE Only({ IF ~d_name_ptr.ok THEN Raise(d_name_ptr)
                       ELSE Only({ IF ~d_name.ok THEN Raise(d_name)
                                   ELSE Only({ IF \/ AsI64(root_rabbit.v)
                                                        \notin DOMAIN r.m.rabbit_objs
                                                  \/ d_name.v \notin {PRINT, STEST}
                                               THEN Abort(r.m)   \* HashMap key missing
                                               ELSE Continue(push(
                                                      [r.m EXCEPT !.rabbit_fns =
                                                          (r.v :> d_name.v) @@ @],
                                                      Word(r.v)).m)
                                             : r \in {next_rabbit(d_name.m)} })
                                 : d_name \in {cstr(d_name_ptr.m, d_name_ptr.v)} })
                     : d_name_ptr \in {pop_arg_addr(root_rabbit.m)} })
         : root_rabbit \in {pop_as(m, 8)} })

\* invoke.rs:70 `break`, then invoke.rs:222 Ok(InvokeResult::Ok): no operand is
\* fetched and the result carries no value
arm_exit(m) == Return(m, InvokeOk)

\* a default arm that skips the byte and goes on with the loop
arm_default_skip(m) == Continue(m)

\* invoke.rs:217 the default arm
arm_default(m) == Return(m, InvokeErr("BadInstruction"))

\* the opcodes invoke.rs gives an arm to
Dispatched == (0 .. 31) \cup (40 .. 59) \cup (64 .. 70)

----------------------------------------------------------------------------
(* Images (lib.rs:180).  The first two are the images of the tests abi_call  *)
(* and exit_value_test; the others are raw images that put one instruction   *)
(* of each family where the interpreter fetches it.                          *)

Image(static, text, main) == [static_section |-> static, text_section |-> text, main |-> main]

\* tests::abi_call (lib.rs:466-476)
AbiCallImage ==
    Image(Zeros(8) \o STDABI \o << 0 >> \o STEST \o << 0 >> \o STDABI_TEST \o << 0 >>,
          << 68, 0, 0, 0, 0, 0, 0, 0, 8,
             69, 0, 0, 0, 0, 0, 0, 0, 15,
             0, 0, 0, 0, 0, 0, 0, 0, 21,
             67, 255, 255, 255, 255, 255, 255, 255, 240,
             70 >>, 0)

\* the abi_call program over a string that is not "STDABI TEST"
AbiFailImage ==
    [AbiCallImage EXCEPT !.static_section[31] = 88]               \* "STDABI TEXT"

\* tests::exit_value_test (lib.rs:541-549): ir::build emits the single byte 70
\* for "exit 1234" (ir.rs:127-129)
ExitValueImage == Image(<< >>, << 70 >>, 0)

\* the string table the raw images share: "stdabi" at 68, "stest" at 75
Strings == STDABI \o << 0 >> \o STEST \o << 0 >>
Raw(head) == Image(head \o Zeros(68 - Len(head)) \o Strings, << >>, 0)

\* operand words, then two values at 40 and 48: a, then the four words of
\* "a 48 40 48" (two instructions on the addresses 40 and 48)
AluImage(a) ==
    Image(a \o Word(48) \o Word(40) \o Word(48) \o Zeros(8)
          \o << 200, 1, 2, 3, 4, 5, 6, 7 >> \o << 100, 0, 0, 0, 0, 0, 0, 9 >>, << >>, 0)

\* a program that docks "stdabi" and pushes the address 75 of "STDABI TEST"
HostImage ==
    Image(<< 68, 0, 0, 0, 0, 0, 0, 0, 0, 0, 0, 0, 0, 0, 0, 75 >> \o Zeros(52)
          \o STDABI \o << 0 >> \o STDABI_TEST \o << 0 >>, << >>, 0)

Images == <<
    AbiCallImage,
    ExitValueImage,
    Image(<< >>, << 73, 0, 0, 0, 0, 0, 0, 4, 210 >>, 0),
    Image(<< >>, << 70, 0, 0, 0, 0, 0, 0, 4, 210 >>, 0),
    Raw(<< 65, 0, 0, 0, 0, 0, 0, 0, 66 >>),
    Raw(<< 68, 0, 0, 0, 0, 0, 0, 0, 69 >>),
    Raw(<< 0, 0, 0, 0, 0, 0, 0, 68, 69 >>),
    Raw(<< 67, 0, 0, 0, 0, 0, 0, 0 >>),
    Raw(<< 4, 0, 0, 0, 0, 0, 0, 0 >>),
    Raw(<< 3, 0, 0, 0, 0, 0, 0, 0, 11 >>),
    Raw(<< 2, 70, 9, 1 >>),
    Raw(<< 1, 0, 0, 0, 65, 0, 0, 0, 0, 0, 0, 0, 70 >>),
    Raw(<< 8 >>),
    Image(<< 1 >>, << >>, 0),
    Raw(<< 115 >>),
    AbiFailImage,
    Raw(<< 68, 0, 0, 0, 0, 0, 0, 0, 68, 0, 0, 0, 0, 0, 0, 0, 70 >>),
    Raw(<< 64, 0, 0, 0, 0, 0, 0, 30, 70 >>),
    Raw(<< 74 >>),
    Raw(<< 68, 0, 0, 0, 0, 0, 0, 0, 98, 0, 0, 0, 0, 0, 0, 0 >>),
    HostImage,
    Image(Zeros(end + 2), << >>, 0),
    Image(Zeros(end), Zeros(9), 0),
    Raw(Zeros(16) \o << 71, 0, 0, 0, 0, 0, 0, 0, 40 >>),
    AluImage(<< 40, 0, 0, 0, 0, 0, 0, 0 >>),
    AluImage(Word(40)),
    Raw(<< 3, 255, 255, 255, 255, 255, 255, 255, 255 >>)
>>

\* the images whose programs dock "stdabi"
HostImages == {6, 17, 21}

\* Image::lookup (lib.rs:189)
lookup(image) == Len(image.static_section) + image.main

----------------------------------------------------------------------------
(* invoke.rs:13-220 `match op`.  The arms 12..31 and 40..59 call methods     *)
(* (movver, movmer, movrer, cmplter, ..., getreg_as) that no file under     *)
(* src/ defines; programs are not followed through them.                     *)

Followed == (0 .. 11) \cup (64 .. 70) \cup ((0 .. 255) \ Dispatched)

dispatch(m, op) ==
    CASE op \in 0 .. 3  -> Try(pushv(m, WidthOf(op, 0)))
      [] op \in 4 .. 7  -> Try(swap(m, WidthOf(op, 4)))
      [] op \in 8 .. 11 -> Try(pop(m, WidthOf(op, 8)))
      [] op = 65 -> arm_call(m)
      [] op = 66 -> arm_ret(m)
      [] op = 67 -> arm_invokevirtual(m)
      [] op = 68 -> arm_dock(m)
      [] op = 69 -> arm_loadfun(m)
      [] op = 70 -> arm_exit(m)
      [] OTHER -> arm_default(m)

----------------------------------------------------------------------------
(* The hypervisor's calls *)

Assign(m) ==
    /\ memory' = m.memory
    /\ text_start' = m.text_start
    /\ stack_start' = m.stack_start
    /\ stack_pointer' = m.stack_pointer
    /\ exec_pointer' = m.exec_pointer
    /\ errcode' = m.errcode
    /\ sbm' = m.sbm
    /\ registers' = m.registers
    /\ rabbit_top' = m.rabbit_top
    /\ rabbit_objs' = m.rabbit_objs
    /\ rabbit_fns' = m.rabbit_fns

\* the record of an operation: its name, arguments, outcome, the machine and the
\* state it started from, and the operation before it
Did(name, arg, ok, ret, err) ==
    [ op |-> name, arg |-> arg, ok |-> ok, ret |-> ret, err |-> err,
      pre |-> Self, was |-> state,
      prev |-> [op |-> last.op, arg |-> last.arg, ok |-> last.ok,
                sp |-> last.pre.stack_pointer, ep |-> last.pre.exec_pointer,
                mem |-> last.pre.memory, sbm |-> last.pre.sbm] ]

NoFrame == [phase |-> "none", sp |-> 0, sbm |-> << 0, 0 >>, c |-> 0, t |-> 0]

\* the bracket an operation leaves: setsbm opens it, instructions run inside it,
\* a caught throw of a nonzero byte, the checkerr right after it and the geterr
\* right after that advance it ("thrown", "handled", "observed"); an instruction
\* right after the throw, and a checkerr after that one, take it to "lost" and
\* "rechecked"; anything else closes it
Bracket(name, arg, ok) ==
    CASE name = "setsbm" ->
            [phase |-> "armed", sp |-> stack_pointer, sbm |-> sbm, c |-> 0, t |-> 0]
      [] name = "instruction" /\ frame.phase = "armed" /\ ok -> frame
      [] name = "throw" /\ frame.phase = "armed" /\ ok /\ arg[1] # 0 ->
            [frame EXCEPT !.phase = "thrown", !.c = arg[1]]
      [] name = "checkerr" /\ frame.phase = "thrown" ->
            [frame EXCEPT !.phase = "handled", !.t = arg[1]]
      [] name = "geterr" /\ frame.phase = "handled" ->
            [frame EXCEPT !.phase = "observed"]
      [] name = "instruction" /\ frame.phase = "thrown" /\ ok ->
            [frame EXCEPT !.phase = "lost"]
      [] name = "checkerr" /\ frame.phase = "lost" ->
            [frame EXCEPT !.phase = "rechecked", !.t = arg[1]]
      [] OTHER -> NoFrame

\* rabbit_top is used by next_rabbit but set by no code under src/; its first
\* value is the one the specification gives (capacity + 1)
RabbitTopInit == Capacity + 1

\* Machine::new (lib.rs:220)
new(capacity) ==
    [ memory |-> [i \in 0 .. capacity - 1 |-> 0], text_start |-> 0, stack_start |-> 0,
      stack_pointer |-> 0, exec_pointer |-> 0, errcode |-> 0, sbm |-> << 0, 0 >>,
      registers |-> [r \in {0, 1} |-> 0], rabbit_top |-> RabbitTopInit,
      rabbit_objs |-> << >>, rabbit_fns |-> << >>, end |-> capacity - 8 ]

New == new(Capacity)

Init ==
    /\ hostLE \in BOOLEAN
    /\ memory = New.memory
    /\ text_start = New.text_start
    /\ stack_start = New.stack_start
    /\ stack_pointer = New.stack_pointer
    /\ exec_pointer = New.exec_pointer
    /\ errcode = New.errcode
    /\ sbm = New.sbm
    /\ registers = New.registers
    /\ rabbit_top = New.rabbit_top
    /\ rabbit_objs = New.rabbit_objs
    /\ rabbit_fns = New.rabbit_fns
    /\ state = "new"
    /\ result = NoResult
    /\ mounted = 0
    /\ invokes = 0
    /\ entry = 0
    /\ ops = 0
    /\ last = [ op |-> "new", arg |-> << >>, ok |-> TRUE, ret |-> << >>, err |-> "none",
                pre |-> New, was |-> "new",
                prev |-> [op |-> "none", arg |-> << >>, ok |-> TRUE, sp |-> 0, ep |-> 0,
                          mem |-> New.memory, sbm |-> << 0, 0 >>] ]
    /\ frame = NoFrame

\* a mount that clears the memory above the image
mount_clearing(m, image) ==
    IF Len(image.static_section) + Len(image.text_section) > Capacity THEN Abort(m)
    ELSE [m |-> [m EXCEPT !.memory = [i \in DOMAIN m.memory |->
                        IF i < Len(image.static_section \o image.text_section)
                        THEN (image.static_section \o image.text_section)[i + 1]
                        ELSE 0],
                    !.text_start = Len(image.static_section),
                    !.stack_start = Len(image.static_section) + Len(image.text_section)],
          to |-> "mounted", res |-> NoResult]

\* Machine::mount (lib.rs:234): bytes are copied until the buffer is exhausted,
\* where `head.next().unwrap()` panics
mount(m, image) ==
    LET bytes == image.static_section \o image.text_section
        m1 == [m EXCEPT !.memory = [i \in DOMAIN m.memory |->
                            IF i < Len(bytes) THEN bytes[i + 1] ELSE m.memory[i]]]
    IN  IF Len(bytes) > Capacity THEN Abort(m1)
        ELSE [m |-> [m1 EXCEPT !.text_start = Len(image.static_section),
                               !.stack_start = Len(image.static_section)
                                               + Len(image.text_section)],
              to |-> "mounted", res |-> NoResult]

MountOf(ids) ==
    /\ state = "new"
    /\ \E k \in ids :
        LET o == mount(Self, Images[k]) IN
        /\ Assign(o.m)
        /\ state' = o.to
        /\ mounted' = k
        /\ last' = Did("mount", << k >>, o.to = "mounted", << >>, "none")
        /\ UNCHANGED << hostLE, result, invokes, entry, ops, frame >>

\* Machine::invoke (invoke.rs:8-10): the two registers are set, nothing else
invoke(m, at) == [m EXCEPT !.registers[0] = at, !.registers[1] = m.stack_start]

InvokeAt(offsets) ==
    /\ state \in {"mounted", "returned"}
    /\ invokes < MaxInvokes
    /\ ops = 0
    /\ \E at \in offsets :
        /\ Assign(invoke(Self, at))
        /\ state' = "running"
        /\ result' = NoResult
        /\ invokes' = invokes + 1
        /\ entry' = at
        /\ last' = Did("invoke", << at >>, TRUE, << >>, "none")
        /\ UNCHANGED << hostLE, mounted, ops, frame >>

----------------------------------------------------------------------------
(* The interpreter loop (invoke.rs:11-221) *)

\* invoke.rs:12 `let op = self.pop_arg::<u8>().map_err(InvokeErr::MemErr)?`
Fetch   == pop_arg(Self, 1)
Opcode  == Fetch.v[1]
Running == state = "running" /\ exec_pointer <= MaxExec

\* the error an InvokeErr carries: the MemoryErr inside MemErr, or its own name
ErrOf(res) == IF res.kind # "Err" THEN "none"
              ELSE IF res.err = "MemErr" THEN res.mem ELSE res.err

\* one turn of the loop: the fetch, then the arm of the opcode fetched
turn(m) ==
    Only({ IF ~op.ok THEN Raise(op) ELSE dispatch(op.m, op.v[1]) : op \in {pop_arg(m, 1)} })

\* the outcomes of one turn: one, but for the branch arm
turns(m) ==
    Only({ IF op.ok /\ op.v[1] = 64 THEN arm_branch(op.m) ELSE {turn(m)}
         : op \in {pop_arg(m, 1)} })

Step(name) ==
    \E o \in turns(Self) :
    /\ Assign(o.m)
    /\ state' = o.to
    /\ result' = IF o.to = "running" THEN result ELSE o.res
    /\ ops' = IF ops > 0 THEN ops + 1 ELSE 0
    /\ last' = Did(name, IF Fetch.ok THEN << Opcode >> ELSE << >>,
                   o.res.kind \notin {"Err", "Panic"}, << >>, ErrOf(o.res))
    /\ frame' = Bracket("instruction", << >>, o.to = "running")
    /\ UNCHANGED << hostLE, mounted, invokes, entry >>

\* the arms, one action each (Spec)
FetchFault == Running /\ ~Fetch.ok /\ Step("fetch")
Pushv      == Running /\ Fetch.ok /\ Opcode \in 0 .. 3 /\ Step("pushv")
Swap       == Running /\ Fetch.ok /\ Opcode \in 4 .. 7 /\ Step("swap")
Pop        == Running /\ Fetch.ok /\ Opcode \in 8 .. 11 /\ Step("pop")
Branch     == Running /\ Fetch.ok /\ Opcode = 64 /\ Step("branch")
Call       == Running /\ Fetch.ok /\ Opcode = 65 /\ Step("call")
Ret        == Running /\ Fetch.ok /\ Opcode = 66 /\ Step("ret")
InvokeVirtual ==
              Running /\ Fetch.ok /\ Opcode = 67 /\ Step("invokevirtual")
Dock       == Running /\ Fetch.ok /\ Opcode = 68 /\ Step("dock")
LoadFun    == Running /\ Fetch.ok /\ Opcode = 69 /\ Step("loadfun")
Exit       == Running /\ Fetch.ok /\ Opcode = 70 /\ Step("exit")
BadInstruction ==
              Running /\ Fetch.ok /\ Opcode \notin Dispatched /\ Step("default")

Mount  == MountOf(1 .. Len(Images))
Invoke == InvokeAt({0, lookup(Images[mounted])})

Next ==
    \/ Mount \/ Invoke \/ FetchFault
    \/ Pushv \/ Swap \/ Pop \/ Branch \/ Call \/ Ret \/ InvokeVirtual \/ Dock \/ LoadFun
    \/ Exit \/ BadInstruction

Spec == Init /\ [][Next]_vars

----------------------------------------------------------------------------
(* The structured-error instructions.  lib.rs documents setsbm, checkerr and *)
(* geterr (lib.rs:77-111) and holds the fields they work on, but no code     *)
(* under src/ implements them; they are modelled from the specification      *)
(* (4.5.1) on top of the machine's own push and pop_as.                      *)

\* setsbm: push the live (sbm_stack, sbm_exec), stack word on top; the new
\* marker is (stack_pointer before the pushes, exec_pointer + 9)
setsbm(m) ==
    Only({ Ok([p2.m EXCEPT !.sbm = << m.stack_pointer, m.exec_pointer + 9 >>], << >>)
         : p2 \in {push(push(m, Word(m.sbm[2])).m, Word(m.sbm[1]))} })

\* checkerr target: pop the saved pair into the live sbm; jump to target when
\* errcode is nonzero
checkerr(m, target) ==
    Only({ IF ~s.ok THEN s
           ELSE Only({ IF ~e.ok THEN e
                       ELSE Ok([e.m EXCEPT !.sbm = << AsI64(s.v), AsI64(e.v) >>,
                                           !.exec_pointer =
                                               IF m.errcode # 0 THEN target ELSE @],
                               << >>)
                     : e \in {pop_as(s.m, 8)} })
         : s \in {pop_as(m, 8)} })

\* geterr: push the last errcode as one byte
geterr(m) == push(m, << m.errcode >>)

----------------------------------------------------------------------------
(* Methods called directly.  The interpreter of invoke.rs reaches only part  *)
(* of lib.rs: throw has no arm, and the stack primitives are reached only    *)
(* through the instructions that use them.  SpecStack and SpecSbm let the    *)
(* crate's own callers (a host function holds &mut Machine; the tests module *)
(* sees every method) call the methods on the machines the interpreter       *)
(* leaves; an Err returned while invoke is running leaves invoke through `?`.*)

PushValues == { << 171 >>, << 1, 2 >>, << 1, 2, 3, 4 >>, << 1, 2, 3, 4, 5, 6, 7, 8 >> }
ErrBytes   == { 0, 7, 9 }
Target     == end - 8
Addrs      == { 0 - 9, 0 - 1, 0, end - 1, end }

\* a private method is callable from the tests module on any mounted machine,
\* and from a host function while invoke runs
Callable(K) == state \in {"mounted", "running", "returned"} /\ ops < K

\* the structured-error instructions are executed by a running program
Executable(K) == state = "running" /\ ops < K

Direct(name, arg, r) ==
    /\ Assign(r.m)
    /\ state' = IF state = "running" /\ ~r.ok THEN "returned" ELSE state
    /\ result' = IF state = "running" /\ ~r.ok THEN InvokeErr(r.e) ELSE result
    /\ ops' = ops + 1
    /\ last' = Did(name, arg, r.ok, r.v, r.e)
    /\ frame' = Bracket(name, arg, r.ok)
    /\ UNCHANGED << hostLE, mounted, invokes, entry >>

\* one turn of the interpreter loop, whatever the opcode
Instruction(K) ==
    Running /\ ops < K /\ (Fetch.ok => Opcode \in Followed) /\ Step("instruction")

OpPush      == Callable(MaxStackOps)
               /\ \E v \in PushValues : \E r \in {push(Self, v)} : Direct("push", v, r)
OpPopAs     == Callable(MaxStackOps)
               /\ \E n \in Widths : \E r \in {pop_as(Self, n)} : Direct("pop_as", << n >>, r)
OpPopArg    == Callable(MaxStackOps)
               /\ \E n \in {1, 8} : \E r \in {pop_arg(Self, n)} : Direct("pop_arg", << n >>, r)
OpPopAddr   == Callable(MaxStackOps) /\ \E r \in {pop_addr(Self)} : Direct("pop_addr", << >>, r)
OpStackaddr == Callable(MaxStackOps)
               /\ \E a \in Addrs : \E r \in {stackaddr(Self, a)} : Direct("stackaddr", << a >>, r)

OpThrow     == Executable(MaxSbmOps)
               /\ \E c \in ErrBytes : \E r \in {throw(Self, c)} : Direct("throw", << c >>, r)
OpSetsbm    == Executable(MaxSbmOps) /\ \E r \in {setsbm(Self)} : Direct("setsbm", << >>, r)
OpCheckerr  == Executable(MaxSbmOps)
               /\ \E r \in {checkerr(Self, Target)} : Direct("checkerr", << Target >>, r)
OpGeterr    == Executable(MaxSbmOps) /\ \E r \in {geterr(Self)} : Direct("geterr", << >>, r)

\* the images the direct calls are made on: abi_call and the image of pushes
StackImages == {14}
SbmImages   == {1, 14}
MountStack  == MountOf(StackImages)
MountSbm    == MountOf(SbmImages)
InvokeMain  == InvokeAt({lookup(Images[mounted])})
RunStack    == Instruction(MaxStackOps)
RunSbm      == Instruction(MaxSbmOps)

NextStack ==
    \/ MountStack \/ InvokeMain \/ RunStack
    \/ OpPush \/ OpPopAs \/ OpPopArg \/ OpPopAddr \/ OpStackaddr

SpecStack == Init /\ [][NextStack]_vars

NextSbm ==
    \/ MountSbm \/ InvokeMain \/ RunSbm
    \/ OpThrow \/ OpSetsbm \/ OpCheckerr \/ OpGeterr

SpecSbm == Init /\ [][NextSbm]_vars

\* invoke called again on the machine an earlier invoke has left, whatever
\* ran in between
Reinvoke ==
    /\ state = "returned"
    /\ invokes < MaxInvokes
    /\ ops > 0
    /\ \E at \in {lookup(Images[mounted])} :
        /\ Assign(invoke(Self, at))
        /\ state' = "running"
        /\ result' = NoResult
        /\ invokes' = invokes + 1
        /\ entry' = at
        /\ last' = Did("invoke", << at >>, TRUE, << >>, "none")
        /\ frame' = NoFrame
        /\ UNCHANGED << hostLE, mounted, ops >>

SpecResume == Init /\ [][NextSbm \/ Reinvoke]_vars

----------------------------------------------------------------------------
(* Mounting again.  mount is a public method on &mut Machine: the hypervisor *)
(* may call it on a machine that holds an image already, between invokes.    *)

\* the images mounted over another: exit_value_test's, the image of pushes,
\* abi_call's
RemountImages == {1, 2, 14}

Remount ==
    /\ state \in {"mounted", "returned"}
    /\ ops < MaxMounts
    /\ \E k \in RemountImages : \E o \in {mount(Self, Images[k])} :
        /\ Assign(o.m)
        /\ state' = o.to
        /\ mounted' = k
        /\ ops' = ops + 1
        /\ last' = Did("mount", << k >>, o.to = "mounted", << >>, "none")
        /\ frame' = NoFrame
        /\ UNCHANGED << hostLE, result, invokes, entry >>

RunMount == Instruction(MaxMounts)

NextMount == Mount \/ Invoke \/ RunMount \/ Remount

SpecMount == Init /\ [][NextMount]_vars

----------------------------------------------------------------------------
(* The instruction methods of lib.rs that invoke.rs gives no arm: cpyv, div  *)
(* and cmp are private methods of Machine that the match of invoke.rs never  *)
(* calls (its arms 12..23 and 40..55 name methods that do not exist).        *)
(* SpecArith calls them on the machines a running program leaves.            *)

\* a call of a method that returns Result<(), InvokeErr>, o its outcome
Called(name, arg, o) ==
    /\ Assign(o.m)
    /\ state' = o.to
    /\ result' = IF o.to = "running" THEN result ELSE o.res
    /\ ops' = ops + 1
    /\ last' = Did(name, arg, o.res.kind \notin {"Err", "Panic"}, << >>, ErrOf(o.res))
    /\ frame' = NoFrame
    /\ UNCHANGED << hostLE, mounted, invokes, entry >>

OpCpyv == Executable(MaxArithOps)
          /\ \E n \in Widths : \E o \in {cpyv(Self, n)} : Called("cpyv", << n >>, o)
OpDiv  == Executable(MaxArithOps)
          /\ \E n \in Widths : \E o \in {div(Self, n)} : Called("div", << n >>, o)
OpCmp  == Executable(MaxArithOps)
          /\ \E n \in Widths : \E o \in cmp(Self, n) : Called("cmp", << n >>, o)
OpCpy  == Executable(MaxArithOps)
          /\ \E n \in Widths : \E o \in cpy(Self, n) : Called("cpy", << n >>, o)

\* abi_call, the image of pushes, the two docks, and the dock followed by the
\* handle it mints
ArithImages == {1, 14, 17, 20}
MountArith  == MountOf(ArithImages)
RunArith    == Instruction(MaxArithOps)

NextArith == MountArith \/ InvokeMain \/ RunArith \/ OpCpyv \/ OpDiv \/ OpCmp \/ OpCpy

\* add, sub, mul and shift, as cpyv and div above
OpAdd   == Executable(MaxAluOps)
           /\ \E n \in Widths : \E o \in add(Self, n) : Called("add", << n >>, o)
OpSub   == Executable(MaxAluOps)
           /\ \E n \in Widths : \E o \in sub(Self, n) : Called("sub", << n >>, o)
OpMul   == Executable(MaxAluOps)
           /\ \E n \in Widths : \E o \in mul(Self, n) : Called("mul", << n >>, o)
OpShift == Executable(MaxAluOps)
           /\ \E n \in Widths : \E o \in shift(Self, n) : Called("shift", << n >>, o)

\* the two images of operand words (read on a little-endian and on a
\* big-endian host) and the image whose operand is the stack-relative -1
AluImages == {25, 26, 27}

NextAlu == MountOf(AluImages) \/ InvokeMain \/ Instruction(MaxAluOps) \/ OpAdd \/ OpSub \/ OpMul \/ OpShift

SpecAlu == Init /\ [][NextAlu]_vars

----------------------------------------------------------------------------
(* swap_as called on pairs of addresses of a mounted image: 40, 41 and 48    *)
(* (two pairs that overlap for the wider types, one that never does) and     *)
(* `end`, which is no address of the stack.                                   *)

SwapAddrs == {40, 41, 48, end}
OpSwapAs ==
    /\ Callable(MaxSwapOps)
    /\ \E n \in Widths : \E one \in SwapAddrs : \E two \in SwapAddrs :
          Direct("swap_as", << n, one, two >>, swap_as(Self, n, one, two))

SwapImages == {26}

NextSwap == MountOf(SwapImages) \/ OpSwapAs

SpecSwap == Init /\ [][NextSwap]_vars

----------------------------------------------------------------------------
(* Typed accesses on machines of every small capacity, those below the 8     *)
(* bytes of padding included.                                                  *)

\* one access of n bytes at addr on Machine::new(c) with the stack pointer at sp
OpAccess ==
    /\ state = "new" /\ ops < MaxCapOps
    /\ \E c \in 0 .. MaxCapacity : \E sp \in {0, 3} : \E n \in Widths :
       \E addr \in (0 - 4) .. (c + 1) :
       \E r \in {accessed([new(c) EXCEPT !.stack_pointer = sp], n, addr)} :
          /\ Assign(Self)
          /\ ops' = ops + 1
          /\ last' = Did("access", << c, sp, n, addr >>, r.ok, r.v, r.e)
          /\ UNCHANGED << hostLE, state, result, mounted, invokes, entry, frame >>

SpecCap == Init /\ [][OpAccess]_vars

----------------------------------------------------------------------------
(* The conversions of Numerical (numerical.rs), called on values of every    *)
(* implementing type.  A value is its to_be_bytes, most significant first.    *)

\* the implementing types: BYTE_COUNT and signedness
Types == [n : Widths, signed : BOOLEAN]

\* Numerical::naive_u64.  u64 returns self (numerical.rs:25); the other types
\* store mbytes[i] at sp64[i + 7 - BYTE_COUNT] (numerical.rs:41-48): for
\* BYTE_COUNT = 8 (i64) the index of i = 0 is 7 - 8 in usize, a panic on the
\* subtraction with overflow checks and on the index without them
naive_u64(t, v) ==
    IF t.n = 8 /\ ~t.signed THEN [ok |-> TRUE, v |-> v, e |-> "none"]
    ELSE IF 7 - t.n < 0 THEN [ok |-> FALSE, v |-> << >>, e |-> "panic"]
    ELSE [ok |-> TRUE, e |-> "none",
          v |-> [j \in 1 .. 8 |-> IF j - 1 >= 7 - t.n /\ j - 1 < 7
                                  THEN v[j - (7 - t.n)] ELSE 0]]

\* Numerical::from_naive_u64: v for u64 (numerical.rs:29), the bytes
\* [8 - BYTE_COUNT..] of v.to_be_bytes() for the others (numerical.rs:50-53)
from_naive_u64(t, v) == [i \in 1 .. t.n |-> v[8 - t.n + i]]

\* the values converted: k large bytes above n - k small ones
NumValues(n) == { [i \in 1 .. n |-> IF i <= k THEN 200 ELSE i] : k \in 0 .. n }

\* the bookkeeping of a conversion: the machine is not involved
Converted(name, arg, r) ==
    /\ Assign(Self)
    /\ state' = IF r.ok THEN state ELSE "panicked"
    /\ result' = IF r.ok THEN result ELSE Panic
    /\ ops' = ops + 1
    /\ last' = Did(name, arg, r.ok, r.v, r.e)
    /\ UNCHANGED << hostLE, mounted, invokes, entry, frame >>

OpNaiveU64 ==
    /\ state = "new" /\ ops < MaxNumOps
    /\ \E t \in Types : \E v \in NumValues(t.n) : \E r \in {naive_u64(t, v)} :
          Converted("naive_u64", << t, v >>, r)

\* the value of the last naive_u64 converted back to its type
OpFromNaiveU64 ==
    /\ state = "new" /\ ops < MaxNumOps
    /\ last.op = "naive_u64" /\ last.ok
    /\ \E r \in {from_naive_u64(last.arg[1], last.ret)} :
          Converted("from_naive_u64", << last.arg[1], last.ret >>,
                    [ok |-> TRUE, v |-> r, e |-> "none"])

NextNum == OpNaiveU64 \/ OpFromNaiveU64

SpecNum == Init /\ [][NextNum]_vars

SpecArith == Init /\ [][NextArith]_vars

----------------------------------------------------------------------------
(* Host functions called.  In invoke.rs the functions "print" and "stest"    *)
(* exist only as members of the table dock registers; the invokevirtual arm  *)
(* calls the one it finds in rabbit_fns and matches on its result            *)
(* (invoke.rs:162-167).  SpecHost runs a program to any point where the      *)
(* table is docked and makes that call and that match with either function.  *)

Docked == \E h \in DOMAIN rabbit_objs : rabbit_objs[h] = STDABI

OpHost ==
    /\ Executable(MaxHostOps)
    /\ Docked
    /\ \E fn \in {PRINT, STEST} : \E h \in {call(fn, Self)} : \E o \in {match_res(h)} :
        /\ Assign(o.m)
        /\ state' = o.to
        /\ result' = IF o.to = "running" THEN result ELSE o.res
        /\ ops' = ops + 1
        /\ last' = Did("host", fn, o.res.kind \notin {"Err", "Panic"},
                       << h.res.kind >>, ErrOf(h.res))
        /\ frame' = NoFrame
        /\ UNCHANGED << hostLE, mounted, invokes, entry >>

MountHost == MountOf(HostImages)
RunHost   == Instruction(MaxHostOps)

NextHost == MountHost \/ InvokeMain \/ RunHost \/ OpHost

SpecHost == Init /\ [][NextHost]_vars

----------------------------------------------------------------------------
(* Properties *)

\* the names Spec gives the instructions it executes
Instructions == { "pushv", "swap", "pop", "branch", "call", "ret", "invokevirtual", "dock",
                  "loadfun", "exit" }

Outside(i) == i < 0 \/ i >= end

\* C1: after any instruction that completed without error, both pointers lie
\* in [0, end]: 0 <= stack_pointer <= end and 0 <= exec_pointer <= end.
C1_PointersInRange ==
    (last.op \in Instructions /\ last.ok) =>
        /\ 0 <= stack_pointer /\ stack_pointer <= end
        /\ 0 <= exec_pointer /\ exec_pointer <= end

\* C2: after setsbm, instructions, a caught throw of a nonzero byte c and
\* checkerr target, execution is at target with stack_pointer and sbm as they
\* were just before setsbm; a geterr executed there leaves the byte c on top of
\* the stack.
C2_BracketRestores ==
    /\ frame.phase = "handled" =>
            /\ last.ok
            /\ exec_pointer = frame.t
            /\ stack_pointer = frame.sp
            /\ sbm = frame.sbm
    /\ frame.phase = "observed" =>
            /\ last.ok
            /\ stack_pointer = frame.sp + 1
            /\ frame.sp \in DOMAIN memory /\ memory[frame.sp] = frame.c

\* C3: throw c with sbm = (0, 0) during invoke ends the invoke with the error
\* UncaughtThrow carrying the byte c.
C3_UncaughtThrowCarriesByte ==
    (last.op = "throw" /\ last.pre.sbm = << 0, 0 >> /\ last.was = "running") =>
        /\ state = "returned"
        /\ result.kind = "Err" /\ result.err = "UncaughtThrow"
        /\ result.payload = << last.arg[1] >>

C5_ErrcodeCleared ==
    /\ frame.phase = "lost" => errcode = 0
    /\ frame.phase = "rechecked" =>
            (last.ok => exec_pointer = last.pre.exec_pointer)

\* C6: push of a value of W bits followed at once by a pop of W bits returns
\* the value and leaves stack_pointer where it was before the push.
C6_PushPop ==
    (last.op = "pop_as" /\ last.prev.op = "push" /\ last.arg[1] = Len(last.prev.arg)) =>
        /\ last.ok
        /\ last.ret = last.prev.arg
        /\ stack_pointer = last.prev.sp

\* the index translate(addr) denotes on a machine whose stack pointer is sp
translate(sp, addr) == IF addr >= 0 THEN addr ELSE sp + addr

\* C7: stackaddr(addr) returns addr for addr >= 0 and stack_pointer + addr for
\* addr < 0; it fails, with SegmentationFault, exactly when that index is < 0
\* or >= end; the machine is unchanged.  Stated of the calls made and of every
\* address in Addrs on every machine reached.
C7_Translate ==
    /\ last.op = "stackaddr" =>
            /\ last.ok <=> ~Outside(translate(last.pre.stack_pointer, last.arg[1]))
            /\ last.ok => last.ret = translate(last.pre.stack_pointer, last.arg[1])
            /\ ~last.ok => last.err = "SegmentationFault"
            /\ Self = last.pre
    /\ \A addr \in Addrs :
            /\ stackaddr(Self, addr).ok <=> ~Outside(translate(stack_pointer, addr))
            /\ stackaddr(Self, addr).ok =>
                    stackaddr(Self, addr).v = translate(stack_pointer, addr)
            /\ ~stackaddr(Self, addr).ok => stackaddr(Self, addr).e = "SegmentationFault"
            /\ stackaddr(Self, addr).m = Self

\* a negative address is translated, relative to a stack pointer that has moved
C7_Witness ==
    /\ last.op = "stackaddr" /\ last.ok
    /\ last.arg[1] < 0 /\ last.pre.stack_pointer > 0
    /\ last.ret = last.pre.stack_pointer + last.arg[1]

\* C8: pop_arg, push, pop_as and pop_addr fail with SegmentationFault when the
\* index they access is outside [0, end): push at stack_pointer, pop_as of W
\* bytes at stack_pointer - W, pop_arg at exec_pointer, pop_addr at
\* stack_pointer - 8.
C8_FaultOutside ==
    /\ (last.op = "push" /\ Outside(last.pre.stack_pointer))
            => (~last.ok /\ last.err = "SegmentationFault")
    /\ (last.op = "pop_as" /\ Outside(last.pre.stack_pointer - last.arg[1]))
            => (~last.ok /\ last.err = "SegmentationFault")
    /\ (last.op = "pop_arg" /\ Outside(last.pre.exec_pointer))
            => (~last.ok /\ last.err = "SegmentationFault")
    /\ (last.op = "pop_addr" /\ Outside(last.pre.stack_pointer - 8))
            => (~last.ok /\ last.err = "SegmentationFault")

\* the 8 bytes that follow the opcode the last instruction fetched
Operand == [i \in 1 .. 8 |-> last.pre.memory[last.pre.stack_pointer + i]]

\* C9: exit v ends the invoke with Ok(v), v the 8-byte operand of the
\* instruction; the program of exit_value_test, "exit 1234", ends with Ok(1234).
C9_ExitValue ==
    /\ last.op = "exit" =>
            /\ state = "returned"
            /\ result.kind = "Ok" /\ result.payload = Operand
    /\ (mounted = 2 /\ invokes = 1 /\ entry = lookup(Images[2]) /\ state = "returned") =>
            (result.kind = "Ok" /\ result.payload = Word(1234))

\* the images of the abi_call program: the test's, and the one with another string
AbiImages == {1, 16}

\* C10: the abi_call program, invoked at main, ends with StdabiTestSuccess when
\* its string is "STDABI TEST" and with the error StdabiTestFailure otherwise,
\* the invokevirtual being the last instruction executed.
C10_AbiCall ==
    (/\ mounted \in AbiImages /\ invokes = 1 /\ entry = lookup(Images[mounted])
     /\ state \in {"returned", "panicked"}) =>
        /\ result = IF mounted = 1 THEN StdabiTestSuccess
                    ELSE InvokeErr("StdabiTestFailure")
        /\ last.op = "invokevirtual"

\* the opcode bytes the opcode table leaves undefined
Reserved == 75 .. 255

C13_OpcodeTable ==
    /\ (last.was = "running" /\ last.arg \in {<< b >> : b \in 0 .. 74}) =>
            ~(result.kind = "Err" /\ result.err = "BadInstruction")
    /\ (last.was = "running" /\ last.arg = << 70 >>) =>
            /\ errcode = Operand[1]
            /\ last.pre.sbm = << 0, 0 >> =>
                    (result.kind = "Err" /\ result.err = "UncaughtThrow")
    /\ (last.was = "running" /\ last.arg = << 73 >>) =>
            (state = "returned" /\ result.kind = "Ok")
    /\ (last.was = "running" /\ last.arg = << 74 >>) =>
            (state = "running" /\ stack_pointer = last.pre.stack_pointer + 16)

\* the instruction just executed minted a rabbit handle: dock pushes only the
\* handle it minted; loadfun mints before anything that can still fail with an
\* error value
Minted ==
    \/ last.op = "dock" /\ stack_pointer = last.pre.stack_pointer + 8
    \/ last.op = "loadfun" /\ last.err = "none"

\* the handles registered before the last instruction
HandlesBefore == DOMAIN last.pre.rabbit_objs \cup DOMAIN last.pre.rabbit_fns

IvPtr  == pop_arg(pop_arg(last.pre, 1).m, 8)
IvWord == get_at_as(IvPtr.m, 8, AsI64(IvPtr.v))

\* C16: invokevirtual ptr on a word x at ptr that is not a key of rabbit_fns
\* behaves as call x: the return address is pushed as an L-word and
\* exec_pointer = x.
C16_InvokeVirtualCalls ==
    (/\ last.op = "invokevirtual" /\ IvPtr.ok /\ IvWord.ok
     /\ AsI64(IvWord.v) \notin DOMAIN last.pre.rabbit_fns) =>
        /\ state = "running"
        /\ stack_pointer = last.pre.stack_pointer + 8
        /\ exec_pointer = AsI64(IvWord.v)

\* the 8 bytes at index i of memory mem
WordAt(mem, i) == [k \in 1 .. 8 |-> mem[i + k - 1]]

\* C17: call addr pushes, as an L-word, the exec_pointer that addresses the
\* instruction after the call (9 bytes past the call's opcode) and sets
\* exec_pointer = addr; ret sets exec_pointer to the L-word it pops.
C17_CallRet ==
    /\ (last.op = "call" /\ last.ok) =>
            /\ exec_pointer = AsU(Operand)
            /\ stack_pointer = last.pre.stack_pointer + 8
            /\ WordAt(memory, last.pre.stack_pointer) = Word(last.pre.exec_pointer + 9)
    /\ (last.op = "ret" /\ last.ok) =>
            /\ stack_pointer = last.pre.stack_pointer - 8
            /\ exec_pointer = AsU(WordAt(last.pre.memory, stack_pointer))

\* C18: branch addr pops one byte from the stack (stack_pointer decreases by
\* 1); exec_pointer becomes addr when that byte is 0, and the address of the
\* instruction after the branch (9 bytes past its opcode) otherwise.
C18_BranchPops ==
    (last.op = "branch" /\ last.ok) =>
        /\ stack_pointer = last.pre.stack_pointer - 1
        /\ stack_pointer \in DOMAIN last.pre.memory
        /\ exec_pointer = IF last.pre.memory[stack_pointer] = 0
                          THEN AsU(Operand)
                          ELSE last.pre.exec_pointer + 9

CpyvLoc == pop_arg(last.pre, 8)

\* C15: an instruction given a minted rabbit handle as its memory address
\* fails with SegmentationFault and leaves every byte of memory as it was.
\* Stated of cpyv, whose destination address is a handle of rabbit_objs or
\* rabbit_fns.
C15_HandleRejected ==
    (last.op = "cpyv" /\ CpyvLoc.ok /\ AsI64(CpyvLoc.v) \in HandlesBefore) =>
        /\ ~last.ok /\ last.err = "SegmentationFault"
        /\ memory = last.pre.memory

\* the operands of the div just executed, and the value at the second
DivLoc1 == pop_arg(last.pre, 8)
DivLoc2 == pop_arg(DivLoc1.m, 8)
DivVal2 == get_at_as(DivLoc2.m, last.arg[1], AsI64(DivLoc2.v))

\* C20: div a b with the value at b equal to 0 ends the invoke with the error
\* DivideByZero and leaves memory, and so the value at a, as it was.
C20_DivideByZero ==
    (/\ last.op = "div" /\ DivLoc1.ok /\ DivLoc2.ok /\ DivVal2.ok
     /\ AllEq(DivVal2.v, 1, last.arg[1], 0)) =>
        /\ state = "returned"
        /\ result.kind = "Err" /\ result.err = "DivideByZero"
        /\ memory = last.pre.memory

\* C19: cmp pushes exactly one byte, 0, 1 or 2: stack_pointer advances by 1,
\* the byte under it is the outcome of the comparison, and no other byte of
\* memory changes.
C19_CmpPushes ==
    (last.op = "cmp" /\ last.ok) =>
        /\ stack_pointer = last.pre.stack_pointer + 1
        /\ last.pre.stack_pointer \in DOMAIN memory
        /\ memory[last.pre.stack_pointer] \in {0, 1, 2}
        /\ \A i \in DOMAIN memory \ {last.pre.stack_pointer} :
                memory[i] = last.pre.memory[i]

\* the image of the mount just made, its bytes and its size
Mounted     == Images[last.arg[1]]
MountedSize == Len(Mounted.static_section) + Len(Mounted.text_section)

\* C26: after a successful mount, memory holds the static section from index 0
\* and the text section right after it, text_start is the length of the static
\* section, stack_start is text_start plus the length of the text section, and
\* every byte at and above stack_start is as it was before the mount.
C26_MountLayout ==
    (last.op = "mount" /\ last.ok) =>
        /\ \A i \in 1 .. Len(Mounted.static_section) :
                memory[i - 1] = Mounted.static_section[i]
        /\ \A i \in 1 .. Len(Mounted.text_section) :
                memory[Len(Mounted.static_section) + i - 1] = Mounted.text_section[i]
        /\ text_start = Len(Mounted.static_section)
        /\ stack_start = text_start + Len(Mounted.text_section)
        /\ \A i \in DOMAIN memory :
                i >= stack_start => memory[i] = last.pre.memory[i]

\* an image of both sections is mounted over memory that an earlier program
\* left nonzero above the new stack_start
C26_Witness ==
    /\ last.op = "mount" /\ last.ok
    /\ Mounted.static_section # << >> /\ Mounted.text_section # << >>
    /\ \E i \in DOMAIN memory : i >= stack_start /\ last.pre.memory[i] # 0

\* C27: mount of an image of more than capacity - 8 bytes fails with an
\* OutOfMemory error value; it neither succeeds nor aborts the host.
C27_MountOutOfMemory ==
    (last.op = "mount" /\ MountedSize > end) =>
        /\ ~last.ok /\ last.err = "OutOfMemory"
        /\ state # "panicked"
        /\ state # "mounted"

\* C28: setsbm (opcode 74) pushes the live sbm pair as two L-words, the
\* sbm_stack word on top, so that stack_pointer grows by 16, and sets
\* sbm = (p, q + 9), p the stack_pointer before the pushes and q the
\* exec_pointer after the opcode byte was fetched.
C28_Setsbm ==
    (last.was = "running" /\ last.arg = << 74 >>) =>
        /\ state = "running"
        /\ stack_pointer = last.pre.stack_pointer + 16
        /\ WordAt(memory, last.pre.stack_pointer) = Word(last.pre.sbm[2])
        /\ WordAt(memory, last.pre.stack_pointer + 8) = Word(last.pre.sbm[1])
        /\ sbm = << last.pre.stack_pointer, last.pre.exec_pointer + 1 + 9 >>

\* C29: checkerr target (opcode 71), executed with two L-words on the stack,
\* pops them into the live sbm, so that stack_pointer falls by 16, and sets
\* exec_pointer = target exactly when errcode was nonzero before it; otherwise
\* execution goes on after the 9 bytes of the instruction.
C29_Checkerr ==
    (last.was = "running" /\ last.arg = << 71 >> /\ last.pre.stack_pointer >= 16) =>
        /\ state = "running"
        /\ stack_pointer = last.pre.stack_pointer - 16
        /\ sbm = << AsI64(WordAt(last.pre.memory, last.pre.stack_pointer - 8)),
                    AsI64(WordAt(last.pre.memory, last.pre.stack_pointer - 16)) >>
        /\ exec_pointer = IF last.pre.errcode # 0 THEN AsU(Operand)
                          ELSE last.pre.exec_pointer + 9

\* the fetch of the instruction just executed
Fetched == pop_arg(last.pre, 1)

AluVal1 == get_at_as(last.pre, last.arg[1], AsI64(DivLoc1.v))
AluVal2 == get_at_as(last.pre, last.arg[1], AsI64(DivLoc2.v))
AluWrapped ==
    CASE last.op = "add" -> wrapping_add(AluVal1.v, AluVal2.v)
      [] last.op = "sub" -> wrapping_sub(AluVal1.v, AluVal2.v)
      [] last.op = "mul" -> wrapping_mul(AluVal1.v, AluVal2.v)
AluReadable ==
    /\ last.op \in {"add", "sub", "mul"}
    /\ DivLoc1.ok /\ DivLoc2.ok /\ AluVal1.ok /\ AluVal2.ok

\* C21: for every width and every pair of operand values, add, sub and mul
\* succeed and leave (x op y) mod 2^W at the first address; no operand pair
\* makes the instruction trap or fail.
C21_ArithmeticWraps ==
    AluReadable =>
        /\ last.ok
        /\ state = "running"
        /\ get_at_as(Self, last.arg[1], AsI64(DivLoc1.v)).ok
        /\ get_at_as(Self, last.arg[1], AsI64(DivLoc1.v)).v = AluWrapped

\* the amount of the last shift, read as the method reads it, and the value
\* the shift is to leave
ShiftAmount == pop_arg(DivLoc1.m, 1)
ShiftExpected ==
    Only({ IF n = 0 THEN AluVal1.v
           ELSE IF n >= 8 * last.arg[1] \/ 0 - n >= 8 * last.arg[1]
                THEN Zeros(last.arg[1])
           ELSE IF n < 0 THEN shl(AluVal1.v, 0 - n)
           ELSE shr(AluVal1.v, n)
         : n \in {AsI8(ShiftAmount.v[1])} })

\* C22: shift leaves at its address the value shifted left by -n bits for
\* n < 0, right by n bits for n > 0, unchanged for n = 0 and 0 when |n| is the
\* width in bits or more, and fails for no amount.
C22_ShiftSemantics ==
    (last.op = "shift" /\ DivLoc1.ok /\ AluVal1.ok /\ ShiftAmount.ok) =>
        /\ last.ok
        /\ state = "running"
        /\ get_at_as(Self, last.arg[1], AsI64(DivLoc1.v)).ok
        /\ get_at_as(Self, last.arg[1], AsI64(DivLoc1.v)).v = ShiftExpected

ShiftedLeft ==
    /\ last.op = "shift" /\ last.ok /\ DivLoc1.ok /\ AluVal1.ok /\ ShiftAmount.ok
    /\ AsI8(ShiftAmount.v[1]) < 0
    /\ get_at_as(Self, last.arg[1], AsI64(DivLoc1.v)).v = ShiftExpected
    /\ ShiftExpected # AluVal1.v
ShiftedRight ==
    /\ last.op = "shift" /\ last.ok /\ DivLoc1.ok /\ AluVal1.ok /\ ShiftAmount.ok
    /\ AsI8(ShiftAmount.v[1]) > 0
    /\ get_at_as(Self, last.arg[1], AsI64(DivLoc1.v)).v = ShiftExpected
    /\ ShiftExpected # AluVal1.v

\* the stack address of byte 0 of the destination of the last cpy
CpyTo == stackaddr(last.pre, AsI64(DivLoc2.v)).v

\* C24: cpy on valid addresses a and b leaves the bytes at a as they were, the
\* bytes at b equal to those that were at a and every other byte unchanged; on
\* an invalid address it fails with Segfault.
C24_Cpy ==
    (last.op = "cpy" /\ DivLoc1.ok /\ DivLoc2.ok) =>
        IF AluVal1.ok /\ AluVal2.ok
        THEN /\ last.ok
             /\ get_at_as(Self, last.arg[1], AsI64(DivLoc1.v)).v = AluVal1.v
             /\ get_at_as(Self, last.arg[1], AsI64(DivLoc2.v)).v = AluVal1.v
             /\ \A i \in DOMAIN memory :
                    (i < CpyTo \/ i >= CpyTo + last.arg[1])
                        => memory[i] = last.pre.memory[i]
        ELSE ~last.ok /\ last.err = "Segfault"

CpyCopied ==
    /\ last.op = "cpy" /\ DivLoc1.ok /\ DivLoc2.ok /\ AluVal1.ok /\ AluVal2.ok
    /\ last.ok
    /\ get_at_as(Self, last.arg[1], AsI64(DivLoc2.v)).v = AluVal1.v

\* the address operands the instruction stream holds for the last two
\* instructions: the words at exec_pointer and exec_pointer + 8
StreamA(mem, ep) == AsI64(WordAt(mem, ep))
StreamB(mem, ep) == AsI64(WordAt(mem, ep + 8))

\* an add of width W on a and b is followed by a sub of width W on the same a
\* and b, two addresses of the stack whose W bytes do not overlap
AddThenSub ==
    /\ last.op = "sub" /\ last.prev.op = "add" /\ last.arg = last.prev.arg
    /\ last.prev.ep + 16 <= end /\ last.pre.exec_pointer + 16 <= end
    /\ StreamA(last.prev.mem, last.prev.ep) = StreamA(last.pre.memory, last.pre.exec_pointer)
    /\ StreamB(last.prev.mem, last.prev.ep) = StreamB(last.pre.memory, last.pre.exec_pointer)
    /\ \E a \in {StreamA(last.prev.mem, last.prev.ep)} :
       \E b \in {StreamB(last.prev.mem, last.prev.ep)} :
            /\ a >= 0 /\ a + last.arg[1] <= end
            /\ b >= 0 /\ b + last.arg[1] <= end
            /\ (a + last.arg[1] <= b \/ b + last.arg[1] <= a)

\* C25: add[W] a b followed by sub[W] a b, a and b not overlapping, leaves at a
\* the value that was there before the add, overflow of the sum included.
C25_AddThenSub ==
    AddThenSub =>
        /\ last.prev.ok /\ last.ok /\ state = "running"
        /\ \A i \in 0 .. last.arg[1] - 1 :
              memory[StreamA(last.prev.mem, last.prev.ep) + i]
                  = last.prev.mem[StreamA(last.prev.mem, last.prev.ep) + i]

\* swap_as has just been called a second time on the pair of stack addresses
\* of the call before it
SwappedTwice ==
    /\ last.op = "swap_as" /\ last.prev.op = "swap_as" /\ last.arg = last.prev.arg
    /\ stackaddr(last.pre, last.arg[2]).ok /\ stackaddr(last.pre, last.arg[3]).ok
\* the two ranges are the same range or have no byte in common
SwapDisjoint ==
    \/ last.arg[2] = last.arg[3]
    \/ last.arg[2] + last.arg[1] <= last.arg[3]
    \/ last.arg[3] + last.arg[1] <= last.arg[2]

C31_NaiveRoundTrip ==
    /\ last.op = "naive_u64" =>
            /\ last.ok
            /\ last.ret = Zeros(8 - last.arg[1].n) \o last.arg[2]
    /\ (last.op = "from_naive_u64" /\ last.prev.op = "naive_u64") =>
            last.ret = last.prev.arg[2]

\* C32: a typed access of any width that passes address translation starts at
\* an index i with i + 8 <= capacity and stays inside the buffer, for every
\* capacity; below 8 bytes of capacity no address is accepted.
C32_AccessInsideBuffer ==
    (last.op = "access" /\ last.ok) =>
        /\ last.ret[1] >= 0
        /\ last.ret[1] + 8 <= last.arg[1]
        /\ last.ret[2] < last.arg[1]

\* the last accepted address read as 8 bytes: the access ends in the padding
C32_Witness ==
    /\ last.op = "access" /\ last.ok
    /\ last.arg[3] = 8
    /\ last.ret[1] = last.arg[1] - 9
    /\ last.ret[2] >= last.arg[1] - 8

\* the name the last dock or loadfun read, as the arm reads it
NameLoc == pop_arg_addr(Fetched.m)
NameRead == cstr(NameLoc.m, NameLoc.v)
DockOfTable ==
    /\ last.op = "dock" /\ Fetched.ok /\ NameLoc.ok /\ NameRead.ok
    /\ NameRead.v = STDABI

\* C33: dock on the name of a registered table mints one new handle h, records
\* rabbit_objs[h] = the table and pushes h as an L-word, stack_pointer + 8; a
\* push that faults leaves rabbit_objs as it was.
C33_Dock ==
    DockOfTable =>
        IF Outside(last.pre.stack_pointer)
        THEN last.err = Segfault /\ rabbit_objs = last.pre.rabbit_objs
        ELSE /\ last.ok
             /\ stack_pointer = last.pre.stack_pointer + 8
             /\ \E h \in DOMAIN rabbit_objs \ DOMAIN last.pre.rabbit_objs :
                    /\ DOMAIN rabbit_objs = DOMAIN last.pre.rabbit_objs \cup {h}
                    /\ rabbit_objs[h] = STDABI
                    /\ \A g \in DOMAIN last.pre.rabbit_objs :
                           rabbit_objs[g] = last.pre.rabbit_objs[g]
                    /\ WordAt(memory, last.pre.stack_pointer) = Word(h)

\* the table handle the last loadfun popped, as the arm pops it
TablePopped == pop_as(Fetched.m, 8)
LoadfunOfTable ==
    /\ last.op = "loadfun" /\ Fetched.ok /\ TablePopped.ok
    /\ AsI64(TablePopped.v) \in DOMAIN last.pre.rabbit_objs

\* C34: loadfun pops a table handle t, reads the function name n, mints a new
\* handle r different from t, records rabbit_fns[r] = the callable n of the
\* table and pushes r; stack_pointer ends where it began and rabbit_objs is
\* unchanged.
C34_Loadfun ==
    LoadfunOfTable =>
        /\ last.ok
        /\ stack_pointer = last.pre.stack_pointer
        /\ rabbit_objs = last.pre.rabbit_objs
        /\ \E r \in DOMAIN rabbit_fns \ DOMAIN last.pre.rabbit_fns :
                /\ r # AsI64(TablePopped.v)
                /\ DOMAIN rabbit_fns = DOMAIN last.pre.rabbit_fns \cup {r}
                /\ rabbit_fns[r] \in {PRINT, STEST}
                /\ WordAt(memory, last.pre.stack_pointer - 8) = Word(r)

\* a checkerr that closes the setsbm executed just before it, nothing thrown
Closes == last.op = "checkerr" /\ last.prev.op = "setsbm" /\ last.prev.ok
          /\ last.pre.errcode = 0

\* C35: handlers nest in LIFO order: the checkerr of an inner setsbm leaves the
\* live sbm equal to the outer marker, and the checkerr of the outermost
\* setsbm leaves sbm as it was before that setsbm.
C35_HandlersNest ==
    /\ (Closes /\ last.prev.sbm # << 0, 0 >>) => (last.ok /\ sbm = last.prev.sbm)
    /\ (Closes /\ last.prev.sbm = << 0, 0 >>) => (last.ok /\ sbm = << 0, 0 >>)

\* C36: invoke(at) starts with exec_pointer = at and stack_pointer =
\* stack_start: the first opcode fetched is memory[at] and the first push
\* writes at index stack_start.
C36_InvokeStart ==
    last.op = "invoke" =>
        /\ exec_pointer = last.arg[1]
        /\ stack_pointer = stack_start
        /\ ~Outside(last.arg[1]) =>
                (Fetch.ok /\ Fetch.v = << memory[last.arg[1]] >>)
        /\ ~Outside(stack_start) =>
                \A v \in PushValues :
                    [i \in 1 .. Len(v) |-> push(Self, v).m.memory[stack_start + i - 1]] = v

\* C37: every invoke begins with sbm = (0, 0) and errcode = 0, whatever the
\* invoke before it left; a throw with no setsbm in the current invoke is
\* uncaught.
C37_InvokeStartsNormal ==
    /\ last.op = "invoke" => (sbm = << 0, 0 >> /\ errcode = 0)
    /\ (last.op = "throw" /\ last.prev.op = "invoke") =>
            (~last.ok /\ last.err = "UncaughtThrow")

\* C38: no guest program aborts the host: every instruction of a running
\* program either completes or ends invoke with an InvokeErr; none panics.
C38_NoHostPanic ==
    last.was = "running" => (state # "panicked" /\ result # Panic)

\* one of the two addresses of the last swap_as is no address of the stack
SwapInvalid ==
    /\ last.op = "swap_as"
    /\ ~stackaddr(last.pre, last.arg[2]).ok \/ ~stackaddr(last.pre, last.arg[3]).ok

\* C39: swap is all or nothing: when either address fails translation it
\* returns Segfault and no byte of memory has changed; no outcome has one
\* location overwritten and the other not.
C39_SwapAllOrNothing ==
    /\ SwapInvalid => (~last.ok /\ last.err = Segfault /\ memory = last.pre.memory)
    /\ (last.op = "swap_as" /\ ~last.ok) => memory = last.pre.memory

\* a swap of a valid first address (nonzero bytes) with an invalid second one
C39_Witness ==
    /\ SwapInvalid
    /\ stackaddr(last.pre, last.arg[2]).ok
    /\ last.pre.memory[last.arg[2]] # 0
    /\ ~last.ok /\ last.err = Segfault
    /\ memory = last.pre.memory

\* the instructions that are no jump, branch, call, ret or invokevirtual
StraightLine == { "fetch", "pushv", "swap", "pop", "dock", "loadfun", "exit", "default" }

\* C40: a program without control transfers terminates: every instruction
\* moves exec_pointer forward, and a fetch with exec_pointer at end or beyond
\* ends invoke with Segfault, so no more than `end` instructions are fetched.
C40_StraightLineTerminates ==
    (last.was = "running" /\ last.op \in StraightLine) =>
        /\ state = "running" => exec_pointer > last.pre.exec_pointer
        /\ last.pre.exec_pointer >= end =>
                (state = "returned" /\ last.err = Segfault)

====
